---- MODULE Spec2Model ----
(***************************************************************************)
(* Model of core/bin/server/src/signature_checker.rs: the detached         *)
(* signature checker thread, the tasks it spawns on its tokio runtime,     *)
(* the verification procedure VerifiedTx::verify and the ETH watch         *)
(* (authority) channel it queries.                                         *)
(*                                                                         *)
(* One action is one poll of a task (the code between two suspension       *)
(* points), one step of the checker thread, or one step of the             *)
(* environment (callers, the ETH watch actor).                             *)
(***************************************************************************)
EXTENDS Integers, Sequences, FiniteSets, TLC

\* ---------------------------------------------------------------- bounds
NumRequests == 2        \* requests a run may submit
EthWatchBuffer == 1     \* buffer of the mpsc channel to the ETH watch actor

Requests == 1..NumRequests
Accounts == {"A", "B"}
\* accounts of submitted transactions (the other account only signs)
TxAccounts == {"A"}
\* "hi"
Messages == {<<104, 105>>}

\* ---------------------------------------------------------------- data
\* ZkSyncTx as far as this module reads it: the variant, account(),
\* ChangePubKey.eth_signature and the outcome of check_correctness().
TxSet ==
  [kind : {"Transfer"}, account : TxAccounts, eth_signature : {"NA"}, correct : BOOLEAN]
  \cup
  [kind : {"ChangePubKey"}, account : TxAccounts, eth_signature : {"None", "Some"},
   correct : BOOLEAN]

\* Option<EthSignData>; recovers is the outcome of signature_recover_signer
\* over the message: "Err" or the recovered account.
EthSignDataSet ==
  [kind : {"None"}, recovers : {"NA"}, message : {<<>>}]
  \cup
  [kind : {"EthereumSignature"}, recovers : {"Err"} \cup Accounts, message : Messages]
  \cup
  [kind : {"EIP1271Signature"}, recovers : {"NA"}, message : Messages]

NoRequest == [tx |-> [kind |-> "NoTx", account |-> "NA", eth_signature |-> "NA",
                      correct |-> FALSE],
              eth_sign_data |-> [kind |-> "None", recovers |-> "NA", message |-> <<>>],
              response |-> 0]

\* VerifyTxSignatureRequest: response is the id of the caller's oneshot channel.
VerifyTxSignatureRequest(tx, esd, ch) ==
  [tx |-> tx, eth_sign_data |-> esd, response |-> ch]

\* Result<VerifiedTx, TxAddError>
Empty == [kind |-> "Empty", err |-> "NA", tx |-> NoRequest.tx,
          eth_sign_data |-> NoRequest.eth_sign_data]
Err(e) == [kind |-> "Err", err |-> e, tx |-> NoRequest.tx,
           eth_sign_data |-> NoRequest.eth_sign_data]
\* VerifiedTx(SignedZkSyncTx { tx, eth_sign_data })
VerifiedTx(tx, esd) == [kind |-> "Ok", err |-> "NA", tx |-> tx, eth_sign_data |-> esd]

into_inner(v) == [tx |-> v.tx, eth_sign_data |-> v.eth_sign_data]
inner(v) == [tx |-> v.tx, eth_sign_data |-> v.eth_sign_data]

\* decimal digits of n, as ASCII codes
RECURSIVE Decimal(_)
Decimal(n) == IF n < 10 THEN <<48 + n>> ELSE Decimal(n \div 10) \o <<48 + (n % 10)>>

\* "\x19Ethereum Signed Message:\n"
EthMessagePrefix ==
  <<25, 69, 116, 104, 101, 114, 101, 117, 109, 32, 83, 105, 103, 110, 101, 100, 32,
    77, 101, 115, 115, 97, 103, 101, 58, 10>>

\* format!("\x19Ethereum Signed Message:\n{}{}", message.len(), message)
EIP1271Message(m) == EthMessagePrefix \o Decimal(Len(m)) \o m

\* variant: every ChangePubKey asks for authorization
NeedsAuthorizationAnyChangePubKey(req) == req.tx.kind = "ChangePubKey"

\* the first `if let` of verify_eth_signature
NeedsAuthorization(req) ==
  req.tx.kind = "ChangePubKey" /\ req.tx.eth_signature = "None"

\* EthWatchRequest
IsPubkeyChangeAuthorized(r, req) ==
  [kind |-> "IsPubkeyChangeAuthorized", address |-> req.tx.account,
   message |-> <<>>, resp |-> r]
CheckEIP1271Signature(r, req) ==
  [kind |-> "CheckEIP1271Signature", address |-> req.tx.account,
   message |-> EIP1271Message(req.eth_sign_data.message), resp |-> r]

\* variant: the wrapper is built without the sign data
VerifyTailDropsSignData(req) ==
  IF req.tx.correct THEN VerifiedTx(req.tx, [kind |-> "None", recovers |-> "NA",
                                             message |-> <<>>])
  ELSE Err("IncorrectTx")

\* variant: the native check is skipped
VerifyTailUnchecked(req) == VerifiedTx(req.tx, req.eth_sign_data)

\* ZkSyncTx::check_correctness(&mut self): the verdict and the transaction
\* as the check leaves it
check_correctness(tx) == [ok |-> tx.correct, tx |-> tx]

verify_tx_correctness(tx) ==
  LET c == check_correctness(tx) IN
  IF ~c.ok THEN Err("IncorrectTx") ELSE VerifiedTx(c.tx, NoRequest.eth_sign_data)

\* .and_then(verify_tx_correctness).map(|tx| Self(SignedZkSyncTx{..})) of verify
VerifyTail(req) ==
  LET c == verify_tx_correctness(req.tx) IN
  IF c.kind = "Ok" THEN VerifiedTx(c.tx, req.eth_sign_data) ELSE c

\* variant: the native check is consulted before the signature
DirectSignatureCheckNativeFirst(req) ==
  IF ~req.tx.correct THEN "IncorrectTx"
  ELSE IF req.eth_sign_data.recovers = "Err" THEN "IncorrectEthSignature"
  ELSE IF req.eth_sign_data.recovers # req.tx.account THEN "IncorrectEthSignature"
  ELSE "Ok"

\* variant: the recovered signer is not compared with the account
DirectSignatureCheckNoCompare(req) ==
  IF req.eth_sign_data.recovers = "Err" THEN "IncorrectEthSignature" ELSE "Ok"

\* the EthereumSignature arm of verify_eth_signature: "Ok" or the error
DirectSignatureCheck(req) ==
  IF req.eth_sign_data.recovers = "Err" THEN "IncorrectEthSignature"
  ELSE IF req.eth_sign_data.recovers # req.tx.account THEN "IncorrectEthSignature"
  ELSE "Ok"

\* ThreadPanicNotify: the sentinel signals exactly when its thread unwinds
ThreadPanicNotify(panicking) == panicking

\* ---------------------------------------------------------------- state
VARIABLES
  request,        \* request[r]: the r-th request created by a caller
  input,          \* mpsc queue of requests (ids) to the checker
  inputSenders,   \* some sender of the input queue is alive
  worker,         \* checker thread: "starting", "running", "exited", "panicked"
  panic_notify,   \* a message was sent on panic_notify
  task,           \* task[r]: position of the task spawned for request r
  resp,           \* resp[r]: value returned by VerifiedTx::verify in task r
  response,       \* response[c]: content of the caller's oneshot channel c
  rxAlive,        \* rxAlive[c]: the caller still holds the receiver of c
  sends,          \* sends[c]: number of response.send calls on channel c
  ethq,           \* messages in the channel to the ETH watch actor
  parked,         \* senders parked on the full ETH watch channel
  ethRxAlive,     \* the ETH watch actor still holds its receiver
  authResp,       \* authResp[r]: oneshot of r's IsPubkeyChangeAuthorized query
  eipResp,        \* eipResp[r]: oneshot of r's CheckEIP1271Signature query
  native          \* requests whose task has called verify_tx_correctness

vars == <<request, input, inputSenders, worker, panic_notify, task, resp, response,
          rxAlive, sends, ethq, parked, ethRxAlive, authResp, eipResp, native>>

Init ==
  /\ request = [r \in Requests |-> NoRequest]
  /\ input = <<>>
  /\ inputSenders = TRUE
  /\ worker = "starting"
  /\ panic_notify = FALSE
  /\ task = [r \in Requests |-> "none"]
  /\ resp = [r \in Requests |-> Empty]
  /\ response = [c \in Requests |-> Empty]
  /\ rxAlive = [c \in Requests |-> TRUE]
  /\ sends = [c \in Requests |-> 0]
  /\ ethq = <<>>
  /\ parked = <<>>
  /\ ethRxAlive = TRUE
  /\ authResp = [r \in Requests |-> "unused"]
  /\ eipResp = [r \in Requests |-> "unused"]
  /\ native = {}

Submitted(r) == request[r] # NoRequest
InSeq(x, s) == \E i \in 1..Len(s) : s[i] = x
\* ---------------------------------------------------------------- callers
\* A caller creates a request with a fresh oneshot channel and sends it on
\* the input queue; the send fails once the checker dropped the receiver.
Submit(r) ==
  /\ inputSenders
  /\ worker \in {"starting", "running"}
  /\ ~Submitted(r)
  /\ \A q \in Requests : q < r => Submitted(q)
  /\ \E tx \in TxSet, esd \in EthSignDataSet :
       request' = [request EXCEPT ![r] = VerifyTxSignatureRequest(tx, esd, r)]
  /\ input' = Append(input, r)
  /\ UNCHANGED <<native, inputSenders, worker, panic_notify, task, resp, response, rxAlive,
                 sends, ethq, parked, ethRxAlive, authResp, eipResp>>

\* every sender of the input queue is dropped
DropSenders ==
  /\ inputSenders
  /\ inputSenders' = FALSE
  /\ UNCHANGED <<native, request, input, worker, panic_notify, task, resp, response, rxAlive,
                 sends, ethq, parked, ethRxAlive, authResp, eipResp>>

\* a caller drops the receiving end of its reply channel before the reply
DropReceiver(c) ==
  /\ task[c] \in {"spawned", "flush_auth", "await_auth", "flush_eip", "await_eip"}
  /\ rxAlive[c]
  /\ rxAlive' = [rxAlive EXCEPT ![c] = FALSE]
  /\ UNCHANGED <<native, request, input, inputSenders, worker, panic_notify, task, resp,
                 response, sends, ethq, parked, ethRxAlive, authResp, eipResp>>

\* ---------------------------------------------------------------- task steps
\* variant: the reply goes out on the next request's channel
ResponseChannelOfNext(r) == (request[r].response % NumRequests) + 1

\* the oneshot sender a task answers on
ResponseChannel(r) == request[r].response

\* variant: unwrap() instead of unwrap_or_default()
FinishUnwrap(r, res) ==
  /\ resp' = [resp EXCEPT ![r] = res]
  /\ sends' = [sends EXCEPT ![request[r].response] = @ + 1]
  /\ IF rxAlive[request[r].response]
       THEN /\ response' = [response EXCEPT ![request[r].response] = res]
            /\ task' = [task EXCEPT ![r] = "done"]
       ELSE /\ UNCHANGED response
            /\ task' = [task EXCEPT ![r] = "panicked"]
  /\ UNCHANGED <<ethq, parked, authResp, eipResp>>

\* request.response.send(resp).unwrap_or_default(): a send to a dropped
\* receiver returns Err, which is discarded
Finish(r, res) ==
  LET c == ResponseChannel(r) IN
  /\ task' = [task EXCEPT ![r] = "done"]
  /\ resp' = [resp EXCEPT ![r] = res]
  /\ response' = IF rxAlive[c] THEN [response EXCEPT ![c] = res] ELSE response
  /\ sends' = [sends EXCEPT ![c] = @ + 1]
  /\ UNCHANGED <<ethq, parked, authResp, eipResp>>

\* an .expect() fails inside the task: tokio catches the unwind at the task
\* boundary, the future (and with it request.response) is dropped
Panic(r) ==
  /\ task' = [task EXCEPT ![r] = "panicked"]
  /\ UNCHANGED <<resp, response, sends, ethq, parked, authResp, eipResp, native>>

\* variant: the query is sent again (a retry) with the same reply channel
SendQueryTwice(r, k) ==
  IF ~ethRxAlive
    THEN /\ task' = [task EXCEPT ![r] = "panicked"]
         /\ UNCHANGED <<resp, response, sends, ethq, parked, authResp, eipResp, native>>
    ELSE
      /\ LET q == IF k = "auth" THEN IsPubkeyChangeAuthorized(r, request[r])
                  ELSE CheckEIP1271Signature(r, request[r])
         IN ethq' = Append(Append(ethq, q), q)
      /\ IF k = "auth"
           THEN authResp' = [authResp EXCEPT ![r] = "queued"] /\ UNCHANGED eipResp
           ELSE eipResp' = [eipResp EXCEPT ![r] = "queued"] /\ UNCHANGED authResp
      /\ IF Len(ethq) + 2 > EthWatchBuffer
           THEN /\ parked' = Append(parked, r)
                /\ task' = [task EXCEPT ![r] = IF k = "auth" THEN "flush_auth"
                                               ELSE "flush_eip"]
           ELSE /\ UNCHANGED parked
                /\ task' = [task EXCEPT ![r] = IF k = "auth" THEN "await_auth"
                                               ELSE "await_eip"]
      /\ UNCHANGED <<resp, response, sends, native>>

\* variant: the sender is parked by every send, as on a rendezvous channel
SendQueryAlwaysParks(r, k) ==
  IF ~ethRxAlive
    THEN /\ task' = [task EXCEPT ![r] = "panicked"]
         /\ UNCHANGED <<resp, response, sends, ethq, parked, authResp, eipResp, native>>
    ELSE
      /\ ethq' = Append(ethq, IF k = "auth" THEN IsPubkeyChangeAuthorized(r, request[r])
                              ELSE CheckEIP1271Signature(r, request[r]))
      /\ IF k = "auth"
           THEN authResp' = [authResp EXCEPT ![r] = "queued"] /\ UNCHANGED eipResp
           ELSE eipResp' = [eipResp EXCEPT ![r] = "queued"] /\ UNCHANGED authResp
      /\ parked' = Append(parked, r)
      /\ task' = [task EXCEPT ![r] = IF k = "auth" THEN "flush_auth" ELSE "flush_eip"]
      /\ UNCHANGED <<resp, response, sends, native>>

\* eth_watch_req.clone().send(query).await on the bounded futures channel:
\* a closed channel is an Err (-> expect), otherwise the message is queued
\* and the sender is parked until drained when the buffer is exceeded
SendQuery(r, k) ==
  IF ~ethRxAlive THEN Panic(r)
  ELSE
    /\ ethq' = Append(ethq, IF k = "auth" THEN IsPubkeyChangeAuthorized(r, request[r])
                            ELSE CheckEIP1271Signature(r, request[r]))
    /\ IF k = "auth"
         THEN authResp' = [authResp EXCEPT ![r] = "queued"] /\ UNCHANGED eipResp
         ELSE eipResp' = [eipResp EXCEPT ![r] = "queued"] /\ UNCHANGED authResp
    /\ IF Len(ethq) + 1 > EthWatchBuffer
         THEN /\ parked' = Append(parked, r)
              /\ task' = [task EXCEPT ![r] = IF k = "auth" THEN "flush_auth"
                                             ELSE "flush_eip"]
         ELSE /\ UNCHANGED parked
              /\ task' = [task EXCEPT ![r] = IF k = "auth" THEN "await_auth"
                                             ELSE "await_eip"]
    /\ UNCHANGED <<resp, response, sends, native>>

\* variant: the tasks share one reply slot, so a reply read while another
\* task's query is still with the actor counts as a denial
AuthorizationOutcomeSharedSlot(reply) ==
  CASE reply = "closed" -> "panic"
    [] reply = "false" \/ (\E q \in Requests : authResp[q] = "held") ->
         "ChangePkNotAuthorized"
    [] OTHER -> "Ok"

\* variant: a denial does not stop the verification
AuthorizationOutcomeIgnoresDenial(reply) ==
  CASE reply = "closed" -> "panic"
    [] OTHER -> "Ok"

\* variant: a denial is reported as IncorrectTx
AuthorizationOutcomeDeniedAsIncorrectTx(reply) ==
  CASE reply = "closed" -> "panic"
    [] reply = "false" -> "IncorrectTx"
    [] OTHER -> "Ok"

\* what the task does with the reply to IsPubkeyChangeAuthorized
AuthorizationOutcome(reply) ==
  CASE reply = "closed" -> "panic"
    [] reply = "false" -> "ChangePkNotAuthorized"
    [] OTHER -> "Ok"

\* variant: an Err reply is not told apart from Ok(false)
EIP1271OutcomeErrAsIncorrectTx(reply) ==
  CASE reply = "closed" -> "panic"
    [] reply = "Err" -> "IncorrectTx"
    [] reply = "OkFalse" -> "IncorrectTx"
    [] OTHER -> "Ok"

\* variant: a closed reply channel is handled like an Err reply
EIP1271OutcomeClosedAsErr(reply) ==
  CASE reply = "closed" -> "EIP1271SignatureVerificationFail"
    [] reply = "Err" -> "EIP1271SignatureVerificationFail"
    [] reply = "OkFalse" -> "IncorrectTx"
    [] OTHER -> "Ok"

\* what the task does with the reply to CheckEIP1271Signature
EIP1271Outcome(reply) ==
  CASE reply = "closed" -> "panic"
    [] reply = "Err" -> "EIP1271SignatureVerificationFail"
    [] reply = "OkFalse" -> "IncorrectTx"
    [] OTHER -> "Ok"

\* a check of verify_eth_signature failed: verify returns the error
Reject(r, e) == Finish(r, Err(e)) /\ UNCHANGED native

\* verify_eth_signature returned Ok(()): verify_tx_correctness runs and
\* verify returns
NativeCheck(r) == Finish(r, VerifyTail(request[r])) /\ native' = native \cup {r}

\* `if let Some(sign_data)` of verify_eth_signature up to the next
\* suspension point or the end of verify
SignatureStep(r) ==
  LET req == request[r] IN
  CASE req.eth_sign_data.kind = "None" -> NativeCheck(r)
    [] req.eth_sign_data.kind = "EthereumSignature" ->
         IF DirectSignatureCheck(req) # "Ok"
           THEN Reject(r, DirectSignatureCheck(req))
           ELSE NativeCheck(r)
    [] OTHER -> SendQuery(r, "eip")

envVars == <<request, input, inputSenders, worker, panic_notify, rxAlive, ethRxAlive>>

\* first poll of the spawned task
TaskStart(r) ==
  /\ task[r] = "spawned"
  /\ IF NeedsAuthorization(request[r]) THEN SendQuery(r, "auth") ELSE SignatureStep(r)
  /\ UNCHANGED envVars

\* the parked sender was woken: send().await returns
TaskFlushAuth(r) ==
  /\ task[r] = "flush_auth"
  /\ ~InSeq(r, parked)
  /\ task' = [task EXCEPT ![r] = "await_auth"]
  /\ UNCHANGED <<resp, response, sends, ethq, parked, authResp, eipResp, native>>
  /\ UNCHANGED envVars

\* eth_watch_resp.1.await of the authorization query completed
TaskResumeAuth(r) ==
  /\ task[r] = "await_auth"
  /\ authResp[r] \in {"true", "false", "closed"}
  /\ LET o == AuthorizationOutcome(authResp[r]) IN
       CASE o = "panic" -> Panic(r)
         [] o = "Ok" -> SignatureStep(r)
         [] OTHER -> Reject(r, o)
  /\ UNCHANGED envVars

TaskFlushEip(r) ==
  /\ task[r] = "flush_eip"
  /\ ~InSeq(r, parked)
  /\ task' = [task EXCEPT ![r] = "await_eip"]
  /\ UNCHANGED <<resp, response, sends, ethq, parked, authResp, eipResp, native>>
  /\ UNCHANGED envVars

\* eth_watch_resp.1.await of the EIP1271 query completed
TaskResumeEip(r) ==
  /\ task[r] = "await_eip"
  /\ eipResp[r] \in {"OkTrue", "OkFalse", "Err", "closed"}
  /\ LET o == EIP1271Outcome(eipResp[r]) IN
       CASE o = "panic" -> Panic(r)
         [] o = "Ok" -> NativeCheck(r)
         [] OTHER -> Reject(r, o)
  /\ UNCHANGED envVars

\* ---------------------------------------------------------------- checker thread
\* Builder::build() succeeded, block_on(checker_routine) starts
WorkerStart ==
  /\ worker = "starting"
  /\ worker' = "running"
  /\ UNCHANGED <<native, request, input, inputSenders, panic_notify, task, resp, response,
                 rxAlive, sends, ethq, parked, ethRxAlive, authResp, eipResp>>

\* variant: the sentinel is created only after the runtime was built
WorkerStartFailNoNotify ==
  /\ worker = "starting"
  /\ worker' = "panicked"
  /\ input' = <<>>
  /\ UNCHANGED <<native, request, inputSenders, panic_notify, task, resp, response,
                 rxAlive, sends, ethq, parked, ethRxAlive, authResp, eipResp>>

\* Builder::build() failed: expect() unwinds the thread, the sentinel fires,
\* the input receiver is dropped with everything queued in it
WorkerStartFail ==
  /\ worker = "starting"
  /\ worker' = "panicked"
  /\ panic_notify' = (panic_notify \/ ThreadPanicNotify(TRUE))
  /\ input' = <<>>
  /\ UNCHANGED <<native, request, inputSenders, task, resp, response, rxAlive, sends, ethq,
                 parked, ethRxAlive, authResp, eipResp>>

\* variant: the loop awaits the spawned task before taking the next request
WorkerTakeAfterPrevious ==
  /\ worker = "running"
  /\ input # <<>>
  /\ \A r \in Requests : task[r] \notin {"spawned", "flush_auth", "await_auth",
                                          "flush_eip", "await_eip"}
  /\ task' = [task EXCEPT ![Head(input)] = "spawned"]
  /\ input' = Tail(input)
  /\ UNCHANGED <<native, request, inputSenders, worker, panic_notify, resp, response,
                 rxAlive, sends, ethq, parked, ethRxAlive, authResp, eipResp>>

\* one iteration of `while let Some(request) = input.next().await`
WorkerTake ==
  /\ worker = "running"
  /\ input # <<>>
  /\ task' = [task EXCEPT ![Head(input)] = "spawned"]
  /\ input' = Tail(input)
  /\ UNCHANGED <<native, request, inputSenders, worker, panic_notify, resp, response, rxAlive,
                 sends, ethq, parked, ethRxAlive, authResp, eipResp>>

Unfinished == {"spawned", "flush_auth", "await_auth", "flush_eip", "await_eip"}

\* what dropping the runtime does to a task in position pc
RuntimeDrop(pc) == IF pc \in Unfinished THEN "cancelled" ELSE pc

\* input.next() yields None: checker_routine returns, block_on returns, the
\* closure ends and drops the runtime, which drops every unfinished task
WorkerExit ==
  /\ worker = "running"
  /\ input = <<>>
  /\ ~inputSenders
  /\ worker' = "exited"
  /\ panic_notify' = (panic_notify \/ ThreadPanicNotify(FALSE))
  /\ task' = [r \in Requests |-> RuntimeDrop(task[r])]
  /\ parked' = <<>>
  /\ UNCHANGED <<native, request, input, inputSenders, resp, response, rxAlive, sends, ethq,
                 ethRxAlive, authResp, eipResp>>

\* ---------------------------------------------------------------- ETH watch actor
\* the actor receives the next query; the channel wakes one parked sender
AuthorityRecv ==
  /\ ethRxAlive
  /\ ethq # <<>>
  /\ ethq' = Tail(ethq)
  /\ parked' = IF parked = <<>> THEN parked ELSE Tail(parked)
  /\ IF Head(ethq).kind = "IsPubkeyChangeAuthorized"
       THEN authResp' = [authResp EXCEPT ![Head(ethq).resp] = "held"]
            /\ UNCHANGED eipResp
       ELSE eipResp' = [eipResp EXCEPT ![Head(ethq).resp] = "held"]
            /\ UNCHANGED authResp
  /\ UNCHANGED <<native, request, input, inputSenders, worker, panic_notify, task, resp,
                 response, rxAlive, sends, ethRxAlive>>

AuthorityAnswerAuth(r) ==
  /\ authResp[r] = "held"
  /\ \E v \in {"true", "false"} : authResp' = [authResp EXCEPT ![r] = v]
  /\ UNCHANGED <<native, request, input, inputSenders, worker, panic_notify, task, resp,
                 response, rxAlive, sends, ethq, parked, ethRxAlive, eipResp>>

AuthorityAnswerEip(r) ==
  /\ eipResp[r] = "held"
  /\ \E v \in {"OkTrue", "OkFalse", "Err"} : eipResp' = [eipResp EXCEPT ![r] = v]
  /\ UNCHANGED <<native, request, input, inputSenders, worker, panic_notify, task, resp,
                 response, rxAlive, sends, ethq, parked, ethRxAlive, authResp>>

\* the actor drops a query's reply sender without answering
AuthorityClose(r) ==
  /\ \/ authResp[r] = "held" /\ authResp' = [authResp EXCEPT ![r] = "closed"]
                             /\ UNCHANGED eipResp
     \/ eipResp[r] = "held" /\ eipResp' = [eipResp EXCEPT ![r] = "closed"]
                            /\ UNCHANGED authResp
  /\ UNCHANGED <<native, request, input, inputSenders, worker, panic_notify, task, resp,
                 response, rxAlive, sends, ethq, parked, ethRxAlive>>

\* the actor drops its receiver: queued queries are dropped with their reply
\* senders, parked senders are woken
AuthorityDropRx ==
  /\ ethRxAlive
  /\ ethRxAlive' = FALSE
  /\ ethq' = <<>>
  /\ parked' = <<>>
  /\ authResp' = [r \in Requests |-> IF authResp[r] = "queued" THEN "closed"
                                     ELSE authResp[r]]
  /\ eipResp' = [r \in Requests |-> IF eipResp[r] = "queued" THEN "closed"
                                    ELSE eipResp[r]]
  /\ UNCHANGED <<native, request, input, inputSenders, worker, panic_notify, task, resp,
                 response, rxAlive, sends>>

Next ==
  \/ \E r \in Requests : Submit(r)
  \/ DropSenders
  \/ \E c \in Requests : DropReceiver(c)
  \/ WorkerStart
  \/ WorkerStartFail
  \/ WorkerTake
  \/ WorkerExit
  \/ \E r \in Requests : TaskStart(r)
  \/ \E r \in Requests : TaskFlushAuth(r)
  \/ \E r \in Requests : TaskResumeAuth(r)
  \/ \E r \in Requests : TaskFlushEip(r)
  \/ \E r \in Requests : TaskResumeEip(r)
  \/ AuthorityRecv
  \/ \E r \in Requests : AuthorityAnswerAuth(r)
  \/ \E r \in Requests : AuthorityAnswerEip(r)
  \/ \E r \in Requests : AuthorityClose(r)
  \/ AuthorityDropRx

Spec == Init /\ [][Next]_vars

TypeOK ==
  /\ worker \in {"starting", "running", "exited", "panicked"}
  /\ \A r \in Requests :
       task[r] \in {"none", "spawned", "flush_auth", "await_auth", "flush_eip",
                    "await_eip", "done", "panicked", "cancelled"}

\* ---------------------------------------------------------------- verify
\* VerifiedTx::verify read as one sequential function of the request and of
\* the replies the ETH watch actor gave to this request's two queries
Verify(req, authReply, eipReply) ==
  IF NeedsAuthorization(req) /\ AuthorizationOutcome(authReply) # "Ok"
    THEN Err(AuthorizationOutcome(authReply))
  ELSE IF req.eth_sign_data.kind = "EthereumSignature"
            /\ DirectSignatureCheck(req) # "Ok"
    THEN Err(DirectSignatureCheck(req))
  ELSE IF req.eth_sign_data.kind = "EIP1271Signature" /\ EIP1271Outcome(eipReply) # "Ok"
    THEN Err(EIP1271Outcome(eipReply))
  ELSE VerifyTail(req)

TaskStep(r) ==
  \/ TaskStart(r)
  \/ TaskFlushAuth(r)
  \/ TaskResumeAuth(r)
  \/ TaskFlushEip(r)
  \/ TaskResumeEip(r)

\* ---------------------------------------------------------------- claims
Chan(r) == request[r].response
Taken(r) == task[r] # "none"
Completed(r) == task[r] = "done"
\* the ETH watch actor left no query of r unanswered or dropped
Answered(r) ==
  /\ authResp[r] \in {"unused", "true", "false"}
  /\ eipResp[r] \in {"unused", "OkTrue", "OkFalse", "Err"}
NativeOutcome(req) ==
  IF req.tx.correct THEN VerifiedTx(req.tx, req.eth_sign_data) ELSE Err("IncorrectTx")

\* C1: with a running checker and an ETH watch actor that answers every
\* query, each reply channel gets at most one send, what it holds is the
\* result of verifying its own request against the answers to its own
\* queries, and once nothing is left to run every submitted request has had
\* exactly one send, whatever the order of the task steps.
C1_EachReplyMatchesItsRequest ==
  /\ \A c \in Requests :
       /\ sends[c] <= 1
       /\ response[c] # Empty =>
            /\ Submitted(c) /\ Completed(c) /\ sends[c] = 1
            /\ response[c] = Verify(request[c], authResp[c], eipResp[c])
       /\ (Completed(c) /\ rxAlive[c]) => response[c] # Empty
  /\ ( /\ worker = "running" /\ input = <<>> /\ ethRxAlive /\ ethq = <<>>
       /\ \A r \in Requests : Answered(r)
       /\ \A r \in Requests : ~ENABLED TaskStep(r) )
     => \A r \in Requests : Submitted(r) => (Completed(r) /\ sends[Chan(r)] = 1)

C1_Witness ==
  /\ \A r \in Requests : Completed(r) /\ response[r] # Empty
  /\ response[1] # response[2]
  /\ authResp[1] = "true" /\ eipResp[2] = "OkTrue"
  /\ response[2].kind = "Ok"

\* C2: a reply is Ok only if every check that applies to the request passed:
\* the authorization answer was "true" for a ChangePubKey without signature,
\* the direct signature recovered the account or the actor answered Ok(true)
\* for the EIP1271 signature, and check_correctness() passed.
C2_OkOnlyIfAllChecksPassed ==
  \A r \in Requests :
    (resp[r].kind = "Ok" \/ response[r].kind = "Ok") =>
      LET req == request[r] IN
      /\ NeedsAuthorization(req) => authResp[r] = "true"
      /\ req.eth_sign_data.kind = "EthereumSignature" =>
           req.eth_sign_data.recovers = req.tx.account
      /\ req.eth_sign_data.kind = "EIP1271Signature" => eipResp[r] = "OkTrue"
      /\ req.tx.correct

C2_Witness ==
  \E r \in Requests :
    /\ response[r].kind = "Ok"
    /\ NeedsAuthorization(request[r])
    /\ request[r].eth_sign_data.kind = "EIP1271Signature"

\* C3: without eth_sign_data and unless the tx is a ChangePubKey without
\* signature, the result is that of check_correctness() alone and no query
\* is ever sent for the request.
C3_NativeCheckAlone ==
  \A r \in Requests :
    (Submitted(r) /\ request[r].eth_sign_data.kind = "None"
       /\ ~(request[r].tx.kind = "ChangePubKey" /\ request[r].tx.eth_signature = "None"))
    => /\ authResp[r] = "unused" /\ eipResp[r] = "unused"
       /\ \A i \in 1..Len(ethq) : ethq[i].resp # r
       /\ task[r] \in {"none", "spawned", "done", "cancelled"}
       /\ Completed(r) => resp[r] = NativeOutcome(request[r])

C3_Witness ==
  /\ Completed(1) /\ Completed(2)
  /\ request[1].eth_sign_data.kind = "None" /\ request[2].eth_sign_data.kind = "None"
  /\ request[1].tx.kind = "ChangePubKey" /\ request[1].tx.eth_signature = "Some"
  /\ request[2].tx.kind = "Transfer"
  /\ resp[1].kind = "Ok" /\ resp[2] = Err("IncorrectTx")

\* C4: a ChangePubKey without signature whose authorization query was
\* answered false ends in Err(ChangePkNotAuthorized), whatever its
\* eth_sign_data and whatever check_correctness() would return.
C4_DeniedIsChangePkNotAuthorized ==
  \A r \in Requests :
    (NeedsAuthorization(request[r]) /\ authResp[r] = "false")
    => /\ task[r] \in {"flush_auth", "await_auth", "done", "cancelled"}
       /\ eipResp[r] = "unused"
       /\ Completed(r) => resp[r] = Err("ChangePkNotAuthorized")

C4_Witness ==
  \E r \in Requests :
    /\ NeedsAuthorization(request[r]) /\ authResp[r] = "false" /\ Completed(r)
    /\ request[r].eth_sign_data.kind = "EthereumSignature"
    /\ request[r].eth_sign_data.recovers = "B"
    /\ ~request[r].tx.correct
    /\ response[r] = Err("ChangePkNotAuthorized")

\* C5: once the EIP1271 query of a request is answered, the answer decides:
\* Ok(true) leaves the result to check_correctness(), Ok(false) gives
\* Err(IncorrectTx), Err(_) gives Err(EIP1271SignatureVerificationFail).
C5_EIP1271ReplyDecides ==
  \A r \in Requests :
    Completed(r) =>
      /\ eipResp[r] = "OkTrue" => resp[r] = NativeOutcome(request[r])
      /\ eipResp[r] = "OkFalse" => resp[r] = Err("IncorrectTx")
      /\ eipResp[r] = "Err" => resp[r] = Err("EIP1271SignatureVerificationFail")

C5_Witness ==
  /\ Completed(1) /\ Completed(2)
  /\ eipResp[1] = "Err" /\ request[1].tx.correct
  /\ eipResp[2] = "OkTrue" /\ resp[2].kind = "Ok"

\* C6: with an EthereumSignature that passed the authorization step, a
\* failed recovery or a recovered account other than tx.account() gives
\* Err(IncorrectEthSignature) even if check_correctness() would pass, and no
\* EIP1271 query is sent for the request.
C6_DirectMismatchIsIncorrectEthSignature ==
  \A r \in Requests :
    (Submitted(r) /\ request[r].eth_sign_data.kind = "EthereumSignature") =>
      /\ eipResp[r] = "unused"
      /\ \A i \in 1..Len(ethq) : ethq[i].kind = "CheckEIP1271Signature" => ethq[i].resp # r
      /\ ~NeedsAuthorization(request[r]) => authResp[r] = "unused"
      /\ ( /\ Completed(r)
           /\ NeedsAuthorization(request[r]) => authResp[r] = "true"
           /\ request[r].eth_sign_data.recovers # request[r].tx.account )
         => resp[r] = Err("IncorrectEthSignature")

C6_Witness ==
  /\ Completed(1) /\ Completed(2)
  /\ request[1].eth_sign_data.kind = "EthereumSignature"
  /\ request[1].eth_sign_data.recovers = "B" /\ request[1].tx.correct
  /\ request[1].tx.kind = "Transfer"
  /\ request[2].eth_sign_data.kind = "EthereumSignature"
  /\ request[2].eth_sign_data.recovers = "Err" /\ request[2].tx.correct
  /\ NeedsAuthorization(request[2]) /\ authResp[2] = "true"
  /\ response[1] = Err("IncorrectEthSignature")
  /\ response[2] = Err("IncorrectEthSignature")

\* C7: a reply sent after the caller dropped its receiver is a no-op: the
\* task ends normally after a single send, nothing is stored, the checker
\* thread neither panics nor signals, it still takes what is queued, the only
\* tasks that do not finish are those the runtime dropped on exit or whose
\* query the actor dropped, and once nothing is left to run every submitted
\* request has been answered.
C7_DroppedReceiverIsNoOp ==
  \A r \in Requests :
    (resp[r] # Empty /\ ~rxAlive[Chan(r)]) =>
      /\ Completed(r) /\ sends[Chan(r)] = 1 /\ response[Chan(r)] = Empty
      /\ worker # "panicked" /\ ~panic_notify
      /\ (worker = "running" /\ input # <<>>) => ENABLED WorkerTake
      /\ \A q \in Requests :
           /\ task[q] = "cancelled" => worker = "exited"
           /\ task[q] = "panicked" =>
                (authResp[q] = "closed" \/ eipResp[q] = "closed" \/ ~ethRxAlive)
      /\ ( /\ worker = "running" /\ input = <<>> /\ ethRxAlive /\ ethq = <<>>
           /\ \A q \in Requests : Answered(q) /\ ~ENABLED TaskStep(q) )
         => \A q \in Requests : Submitted(q) => (Completed(q) /\ sends[Chan(q)] = 1)

C7_Witness ==
  /\ Completed(1) /\ ~rxAlive[1] /\ response[1] = Empty /\ resp[1].kind = "Ok"
  /\ Completed(2) /\ rxAlive[2] /\ response[2].kind = "Ok"
  /\ worker = "running"

\* C8 (as claimed): no pending work is force-cancelled when the loop ends; in
\* particular a task that has sent a query to the ETH watch actor and awaits
\* the reply is never dropped unfinished.
C8_NoPendingWorkCancelled ==
  \A r \in Requests :
    (authResp[r] # "unused" \/ eipResp[r] # "unused") => task[r] # "cancelled"

\* C9: when the actor drops the reply sender of a query of a request, no
\* typed result is produced for the request and nothing is sent on its
\* reply channel.
C9_ClosedReplyGivesNoTypedResult ==
  \A r \in Requests :
    (authResp[r] = "closed" \/ eipResp[r] = "closed") =>
      /\ resp[r] = Empty
      /\ response[Chan(r)] = Empty
      /\ sends[Chan(r)] = 0
      /\ ~Completed(r)

C9_Witness ==
  /\ task[1] = "panicked" /\ authResp[1] = "closed" /\ rxAlive[1]
  /\ task[2] = "panicked" /\ authResp[2] = "true" /\ eipResp[2] = "closed"
  /\ rxAlive[2] /\ ethRxAlive

\* C10 (as claimed): once a task hit a closed reply channel the notifier has
\* been signalled and the checker is no longer running.
C10_ClosedReplyHaltsWorker ==
  \A r \in Requests :
    (task[r] = "panicked" /\ (authResp[r] = "closed" \/ eipResp[r] = "closed"))
    => (panic_notify /\ worker # "running")

\* C11: when building the runtime fails the checker thread takes no request
\* at all and the notifier is signalled; callers are not held up while the
\* thread is starting or after it failed to start.
C11_StartupFailureIsSignalled ==
  /\ worker = "panicked" =>
       /\ panic_notify
       /\ input = <<>>
       /\ \A r \in Requests :
            task[r] = "none" /\ resp[r] = Empty /\ sends[r] = 0 /\ response[r] = Empty
  /\ (worker = "starting" /\ inputSenders /\ \E r \in Requests : ~Submitted(r))
       => ENABLED (\E r \in Requests : Submit(r))
  /\ (worker = "panicked" /\ inputSenders) => ENABLED DropSenders

C11_Witness ==
  /\ worker = "panicked" /\ panic_notify
  /\ \A r \in Requests : Submitted(r) /\ task[r] = "none"

\* the external checks that apply to request r have all passed
ExternalChecksPassed(r) ==
  LET req == request[r] IN
  /\ NeedsAuthorization(req) => authResp[r] = "true"
  /\ req.eth_sign_data.kind = "EthereumSignature" =>
       req.eth_sign_data.recovers = req.tx.account
  /\ req.eth_sign_data.kind = "EIP1271Signature" => eipResp[r] = "OkTrue"

\* steps of a task: Received -> [authorization query] -> [EIP1271 query] ->
\* native check and completion; a task may also end by a panic or be dropped
TaskTransitions ==
  {<<"none", "spawned">>,
   <<"spawned", "flush_auth">>, <<"spawned", "await_auth">>,
   <<"spawned", "flush_eip">>, <<"spawned", "await_eip">>, <<"spawned", "done">>,
   <<"flush_auth", "await_auth">>,
   <<"await_auth", "flush_eip">>, <<"await_auth", "await_eip">>,
   <<"await_auth", "done">>,
   <<"flush_eip", "await_eip">>,
   <<"await_eip", "done">>}
  \cup {<<pc, "panicked">> : pc \in {"spawned", "await_auth", "await_eip"}}
  \cup {<<pc, "cancelled">> : pc \in Unfinished}

C13_StateInvariant ==
  \A r \in Requests :
    /\ (task[r] \in {"flush_auth", "await_auth"} \/ authResp[r] # "unused")
         => NeedsAuthorization(request[r])
    /\ (task[r] \in {"flush_eip", "await_eip"} \/ eipResp[r] # "unused")
         => /\ request[r].eth_sign_data.kind = "EIP1271Signature"
            /\ NeedsAuthorization(request[r]) => authResp[r] = "true"
    /\ r \in native => (ExternalChecksPassed(r) /\ Completed(r))
    /\ Completed(r) => (resp[r] # Empty /\ sends[Chan(r)] = 1)
    /\ resp[r] # Empty => Completed(r)

C13_Step ==
  \A r \in Requests :
    /\ task'[r] # task[r] => <<task[r], task'[r]>> \in TaskTransitions
    /\ Completed(r) =>
         /\ task'[r] = "done" /\ resp'[r] = resp[r]
         /\ sends'[Chan(r)] = sends[Chan(r)] /\ (r \in native <=> r \in native')
    /\ (task[r] # "done" /\ task'[r] = "done" /\ resp'[r].kind = "Ok") => r \in native'

\* C13: each request follows Received -> [authorization query pending] ->
\* [EIP1271 query pending] -> native check -> Completed: the authorization
\* query is pending only for a ChangePubKey without signature, the EIP1271
\* query only for EIP1271 sign data once the authorization (if any) was
\* answered true, the native check runs only after every external check
\* passed, and Completed is terminal and reached at most once.
C13_RequestStateMachine == []C13_StateInvariant /\ [][C13_Step]_vars

C13_Witness ==
  \E r \in Requests :
    /\ NeedsAuthorization(request[r]) /\ authResp[r] = "true"
    /\ request[r].eth_sign_data.kind = "EIP1271Signature" /\ eipResp[r] = "OkTrue"
    /\ r \in native /\ Completed(r) /\ resp[r].kind = "Ok"

\* C14: the error reported is that of the earliest failing step in the
\* order authorization, external signature, native check; a later step is
\* not even run, so a failing native check never hides an earlier error.
C14_EarliestFailureReported ==
  \A r \in Requests :
    Completed(r) =>
      LET req == request[r]
          authOk == NeedsAuthorization(req) => authResp[r] = "true"
      IN
      /\ ~authOk => (resp[r] = Err("ChangePkNotAuthorized") /\ r \notin native)
      /\ (authOk /\ req.eth_sign_data.kind = "EthereumSignature"
            /\ req.eth_sign_data.recovers # req.tx.account)
           => (resp[r] = Err("IncorrectEthSignature") /\ r \notin native)
      /\ (authOk /\ eipResp[r] = "Err")
           => (resp[r] = Err("EIP1271SignatureVerificationFail") /\ r \notin native)
      /\ (authOk /\ eipResp[r] = "OkFalse")
           => (resp[r] = Err("IncorrectTx") /\ r \notin native)
      /\ ExternalChecksPassed(r) => (r \in native /\ resp[r] = NativeOutcome(req))

C14_Witness ==
  /\ Completed(1) /\ Completed(2)
  /\ ~request[1].tx.correct /\ ~request[2].tx.correct
  /\ request[1].eth_sign_data.kind = "EthereumSignature"
  /\ request[1].eth_sign_data.recovers = "B"
  /\ response[1] = Err("IncorrectEthSignature")
  /\ eipResp[2] = "Err"
  /\ response[2] = Err("EIP1271SignatureVerificationFail")

\* ---------------------------------------------------------------- fairness
\* the checker while the input queue stays open: the senders are kept, so
\* the loop never ends
FairNext ==
  \/ \E r \in Requests : Submit(r)
  \/ \E c \in Requests : DropReceiver(c)
  \/ WorkerStart
  \/ WorkerStartFail
  \/ WorkerTake
  \/ \E r \in Requests : TaskStart(r)
  \/ \E r \in Requests : TaskFlushAuth(r)
  \/ \E r \in Requests : TaskResumeAuth(r)
  \/ \E r \in Requests : TaskFlushEip(r)
  \/ \E r \in Requests : TaskResumeEip(r)
  \/ AuthorityRecv
  \/ \E r \in Requests : AuthorityAnswerAuth(r)
  \/ \E r \in Requests : AuthorityAnswerEip(r)
  \/ \E r \in Requests : AuthorityClose(r)
  \/ AuthorityDropRx

\* the runtime polls every task that is ready and block_on polls the loop;
\* nothing is assumed of the callers or of the ETH watch actor
FairSpec ==
  /\ Init /\ [][FairNext]_vars
  /\ WF_vars(WorkerTake)
  /\ \A r \in Requests : WF_vars(TaskStep(r))

\* what is left of r's verification needs no further answer of the actor
OwnQueriesSettled(r) ==
  LET eip == request[r].eth_sign_data.kind = "EIP1271Signature" IN
  \/ task[r] = "spawned" /\ ~NeedsAuthorization(request[r]) /\ ~eip
  \/ task[r] \in {"flush_auth", "await_auth"}
       /\ (authResp[r] = "false" \/ (authResp[r] = "true" /\ ~eip))
  \/ task[r] \in {"flush_eip", "await_eip"} /\ eipResp[r] \in {"OkTrue", "OkFalse", "Err"}

\* C12: with the queue open and fair scheduling of the loop and of the
\* tasks, whatever the actor leaves unanswered, every task that needs no
\* (further) answer completes and sends its reply, and every queued request
\* is taken.
C12_OnlyTheAwaitingTaskStalls ==
  \A r \in Requests :
    /\ OwnQueriesSettled(r) ~> (Completed(r) /\ sends[Chan(r)] = 1)
    /\ (worker = "running" /\ InSeq(r, input)) ~> Taken(r)

C12_Witness ==
  /\ task[1] = "await_auth" /\ authResp[1] = "held"
  /\ Completed(2) /\ response[2].kind = "Ok" /\ eipResp[2] = "OkTrue"

\* C15 (as claimed): no cancellation; a task that has started, here one that
\* has already sent a query, runs to completion although its caller dropped
\* the receiving end of the reply channel.
C15_AbandonedTaskRunsToCompletion ==
  \A r \in Requests :
    (Submitted(r) /\ ~rxAlive[Chan(r)]
       /\ (authResp[r] # "unused" \/ eipResp[r] # "unused"))
      => task[r] # "cancelled"

\* C16: the loop takes the next request whenever one is queued, whatever the
\* tasks of earlier requests are doing, and a task that needs no further
\* answer can always run: a later request completes while an earlier one
\* still awaits the actor.
C16_TakingDoesNotWaitForTasks ==
  /\ (worker = "running" /\ input # <<>>) => ENABLED WorkerTake
  /\ \A r \in Requests : OwnQueriesSettled(r) => ENABLED TaskStep(r)

C16_Witness ==
  /\ task[1] = "await_auth" /\ authResp[1] = "queued"
  /\ Completed(2) /\ response[2] # Empty
  /\ request[2].eth_sign_data.kind = "None"

\* C17 (as claimed): handing a query to the bounded channel never suspends
\* the task.
C17_SendNeverSuspends ==
  \A r \in Requests : task[r] \notin {"flush_auth", "flush_eip"}

C17_StateInvariant ==
  /\ parked # <<>> => Len(ethq) > EthWatchBuffer
  /\ \A r \in Requests :
       /\ InSeq(r, parked) =>
            \/ task[r] = "flush_auth" /\ authResp[r] = "queued"
            \/ task[r] = "flush_eip" /\ eipResp[r] = "queued"
       /\ (task[r] = "await_auth" /\ ~ENABLED TaskStep(r))
            => authResp[r] \in {"queued", "held"}
       /\ (task[r] = "await_eip" /\ ~ENABLED TaskStep(r))
            => eipResp[r] \in {"queued", "held"}
       /\ (task[r] \in {"flush_auth", "flush_eip"} /\ ~ENABLED TaskStep(r))
            => InSeq(r, parked)
       /\ task[r] = "spawned" => ENABLED TaskStep(r)

C17_Step ==
  \A r \in Requests :
    LET req == request[r]
        eip == req.eth_sign_data.kind = "EIP1271Signature"
    IN
    /\ (task[r] # task'[r] /\ task'[r] \in {"flush_auth", "flush_eip"})
         => Len(ethq) >= EthWatchBuffer
    /\ (task[r] = "spawned" /\ task'[r] \notin {"spawned", "cancelled"}
          /\ ~NeedsAuthorization(req) /\ ~eip)
         => task'[r] = "done"
    /\ (task[r] = "await_auth" /\ task'[r] \notin {"await_auth", "cancelled"}
          /\ authResp[r] \in {"true", "false"} /\ ~(eip /\ authResp[r] = "true"))
         => task'[r] = "done"
    /\ (task[r] = "await_eip" /\ task'[r] \notin {"await_eip", "cancelled"}
          /\ eipResp[r] # "closed")
         => task'[r] = "done"

\* C17 (amended): a task is suspended only in its dealings with the actor:
\* awaiting the reply to one of its two queries, or inside the send of a
\* query that found the channel filled up to its buffer, until the actor
\* drains it; signature recovery and the native check run to the end of
\* verify within the poll that reaches them.
C17_SuspendsOnlyOnTheActor == []C17_StateInvariant /\ [][C17_Step]_vars

C17_Witness ==
  /\ task[1] = "await_auth" /\ authResp[1] = "queued"
  /\ task[2] = "flush_eip" /\ InSeq(2, parked) /\ eipResp[2] = "queued"

C18_StateInvariant ==
  \A r \in Requests :
    LET pair == [tx |-> request[r].tx, eth_sign_data |-> request[r].eth_sign_data] IN
    /\ resp[r].kind = "Ok" => (into_inner(resp[r]) = pair /\ inner(resp[r]) = pair)
    /\ response[r].kind = "Ok" =>
         (into_inner(response[r]) = pair /\ inner(response[r]) = pair)
    /\ Submitted(r) => request[r].response = r

C18_Step == \A r \in Requests : Submitted(r) => request'[r] = request[r]

C19_ResultDependsOnRequestAlone ==
  /\ \A r \in Requests :
       Completed(r) => resp[r] = Verify(request[r], authResp[r], eipResp[r])
  /\ \A r1, r2 \in Requests :
       ( /\ Completed(r1) /\ Completed(r2)
         /\ request[r1].tx = request[r2].tx
         /\ request[r1].eth_sign_data = request[r2].eth_sign_data
         /\ authResp[r1] = authResp[r2] /\ eipResp[r1] = eipResp[r2] )
       => resp[r1] = resp[r2]

C19_Witness ==
  /\ Completed(1) /\ Completed(2)
  /\ request[1].tx = request[2].tx
  /\ request[1].eth_sign_data = request[2].eth_sign_data
  /\ NeedsAuthorization(request[1])
  /\ request[1].eth_sign_data.kind = "EIP1271Signature"
  /\ authResp[1] = "true" /\ authResp[2] = "true"
  /\ eipResp[1] = "OkFalse" /\ eipResp[2] = "OkFalse"
  /\ ~rxAlive[1] /\ rxAlive[2]
  /\ resp[1] = resp[2]

\* number of queued queries of one kind that carry r's reply channel
QueuedQueries(kind, r) ==
  Cardinality({i \in 1..Len(ethq) : ethq[i].kind = kind /\ ethq[i].resp = r})

C20_StateInvariant ==
  /\ \A i \in 1..Len(ethq) :
       /\ ethq[i].resp \in Requests
       /\ ethq[i] \in {IsPubkeyChangeAuthorized(ethq[i].resp, request[ethq[i].resp]),
                      CheckEIP1271Signature(ethq[i].resp, request[ethq[i].resp])}
  /\ \A r \in Requests :
       /\ QueuedQueries("IsPubkeyChangeAuthorized", r)
            = (IF authResp[r] = "queued" THEN 1 ELSE 0)
       /\ QueuedQueries("CheckEIP1271Signature", r)
            = (IF eipResp[r] = "queued" THEN 1 ELSE 0)
       /\ ( /\ ~NeedsAuthorization(request[r])
            /\ request[r].eth_sign_data.kind \in {"None", "EthereumSignature"} )
          => (authResp[r] = "unused" /\ eipResp[r] = "unused")
       /\ authResp[r] = "false" => eipResp[r] = "unused"

C20_Step ==
  /\ Len(ethq') <= Len(ethq) + 1
  /\ \A r \in Requests :
       /\ authResp'[r] = "queued" => authResp[r] \in {"unused", "queued"}
       /\ eipResp'[r] = "queued" => eipResp[r] \in {"unused", "queued"}
       /\ authResp[r] # "unused" => authResp'[r] # "unused"
       /\ eipResp[r] # "unused" => eipResp'[r] # "unused"

\* C20: every request has caused at most one query of each kind, each with
\* its own reply channel and never sent again; a request that is no
\* ChangePubKey without signature and has no or direct sign data has caused
\* none, and no EIP1271 query exists for a request whose authorization query
\* was answered false.
C20_AtMostOneQueryOfEachKind == []C20_StateInvariant /\ [][C20_Step]_vars

C20_Witness ==
  /\ Len(ethq) = 2
  /\ ethq[1].kind = "CheckEIP1271Signature" /\ ethq[1].resp = 1
  /\ authResp[1] = "true" /\ eipResp[1] = "queued"
  /\ ethq[2].kind = "IsPubkeyChangeAuthorized" /\ ethq[2].resp = 2
  /\ ethq[1].message = EthMessagePrefix \o <<50, 104, 105>>
====
